---- MODULE Spec2Model ----
(***************************************************************************)
(* Model of the music recommender's hybrid fusion code.                    *)
(*                                                                         *)
(* Three hybrid implementations live in the repository:                    *)
(*   A  recommendation/hybrid.py              HybridRecommender            *)
(*   B  recommendation/hybrid_recommender.py  HybridRecommender            *)
(*   F  recommendation_algorithms/hybrid.py   hybrid_recommend             *)
(*                                                                         *)
(* Numbers.  Python floats are modelled as exact rationals.  A weight      *)
(* vector is a record of integer numerators over the common denominator    *)
(* den, so content = 0.4 + x/(2T) is (8T + 10x) / (20T).  Scores stored    *)
(* in documents and scores returned by the store are whole numbers.        *)
(***************************************************************************)
EXTENDS Integers, Sequences, FiniteSets

VARIABLES
    pc,          \* position of the request being served
    impl,        \* which implementation serves the request: "A", "B" or "F"
    profile,     \* what the store answers for the user: found, counts, reaction lookup
    weights,     \* the weight vector computed for the request
    limit,       \* the requested number of recommendations (limit, n)
    docScore,    \* the 'score' entry of each stored song document (NoScore: no such key)
    popRanking,  \* all stored songs, best popularity score first
    popRecs,     \* what the popularity scorer returned to the hybrid recommender
    contentRecs, \* what the content scorer returned
    collabRecs,  \* what the collaborative scorer returned
    combined,    \* the score dictionary built by the fusion: [order, score]
    result,      \* the list handed back to the caller
    path,        \* "normal", or "fallback" once the except branch has run
    permuted,    \* the result for the same candidates listed in another order
    userId,      \* F: TRUE when the request carries a user id
    seedTracks,  \* F: the seed tracks not yet processed
    popularity,  \* F: the popularity field of each stored track
    invoked,     \* F: the scorers called so far
    contributed, \* F: the scorers that returned at least one candidate
    perSeed,     \* F: the seeds processed and each track's best similarity to one of them
    selfDefaults,   \* B: the recommender's default_weights field
    vectorizer,     \* the content scorer's vectorizer field: "unfitted" or "fitted"
    explanation,    \* what get_recommendation_explanation returned for a song
    previous,       \* what an earlier, identical request returned: [list, score]
    userData,       \* scorers: the user's profile document: [found, favorites]
    reactions,      \* scorers: the songs the user's stored reactions name
    allSongs,       \* scorers: the songs index in the order match_all lists it
    alike,          \* scorers: the pairs of songs whose text features coincide
    matrix,         \* collaborative scorer: the reaction index, [users, rows]
    similarUsers,   \* collaborative scorer: what _get_similar_users returned
    tracks,         \* mood: the tracks handed to extract_current_mood, the rows of df
    currentMood,    \* mood: what extract_current_mood returned
    dfMood,         \* mood: the mood column generate_tags_and_mood wrote
    attempt,        \* client: failed connection attempts counted so far
    connected,      \* client: whether a ping has succeeded
    pingLog,        \* client: the outcome of every es.ping() call made
    client,         \* client: what get_elasticsearch_client returned
    event,          \* consumer: the event process_event was last called with
    handled,        \* consumer: the number of process_event calls made
    trackDoc,       \* consumer: the track's document in 'spotify_tracks'
    history,        \* consumer: the documents written to 'user_history'
    recsWrites,     \* consumer: the documents written to 'user_recommendations'
    syncs,          \* consumer: the number of sync_track calls made
    processed       \* consumer: the valid events processed, by type

classVars == <<profile, weights, docScore, contentRecs, collabRecs, permuted>>
funcVars == <<userId, seedTracks, popularity, invoked, contributed, perSeed>>
objectVars == <<selfDefaults, vectorizer>>
callerVars == <<explanation, previous>>
collabVars == <<matrix, similarUsers>>
moodVars == <<tracks, currentMood, dfMood>>
pingVars == <<attempt, connected, pingLog, client>>
eventVars == <<event, handled, trackDoc, history, recsWrites, syncs, processed>>
serviceVars == <<moodVars, pingVars, eventVars>>
storeVars == <<userData, reactions, allSongs, alike, collabVars, serviceVars>>

vars == <<pc, impl, profile, weights, limit, docScore, popRanking, popRecs,
          contentRecs, collabRecs, combined, result, path, permuted,
          userId, seedTracks, popularity, invoked, contributed, perSeed,
          selfDefaults, vectorizer, explanation, previous,
          userData, reactions, allSongs, alike, matrix, similarUsers,
          tracks, currentMood, dfMood, attempt, connected, pingLog, client,
          event, handled, trackDoc, history, recsWrites, syncs, processed>>

----------------------------------------------------------------------------
(* Bounds of the model *)

MaxCount == 1      \* favorites, playlists, reactions each range over 0..MaxCount
NSongs == 2        \* song ids are 1..NSongs
MaxScore == 2      \* scores range over 1..MaxScore
MaxLimit == 2      \* the requested limit ranges over 0..MaxLimit
MaxSeeds == 2      \* a request names at most MaxSeeds seed tracks
MaxActivity == 10  \* counts of a stored profile, when the weights are computed alone

Counts == 0..MaxCount
SongIds == 1..NSongs
Scores == 1..MaxScore
Limits == 0..MaxLimit

----------------------------------------------------------------------------
(* Lists and dictionaries as Python keeps them *)

Min(a, b) == IF a <= b THEN a ELSE b

Range(s) == {s[i] : i \in 1..Len(s)}

\* s[:k] for k >= 0
Take(s, k) == SubSeq(s, 1, Min(k, Len(s)))

\* lists of distinct members of S
DistinctSeqs(S) ==
    {s \in UNION {[1..n -> S] : n \in 0..Cardinality(S)} :
        \A i, j \in 1..Len(s) : i # j => s[i] # s[j]}

\* all orderings of the entries of s
Orderings(s) == {t \in DistinctSeqs(Range(s)) : Len(t) = Len(s)}

\* A dict keeps its keys in insertion order: order lists the keys, score
\* holds the value of each key (0 for a key that is absent).
EmptyDict == [order |-> <<>>, score |-> [s \in SongIds |-> 0]]

\* no seed track processed
NoSeeds == [done |-> 0, best |-> [s \in SongIds |-> 0]]

\* d[id] = x
DictSet(d, id, x) ==
    [order |-> IF id \in Range(d.order) THEN d.order ELSE Append(d.order, id),
     score |-> [d.score EXCEPT ![id] = x]]

\* a list of pairs instead of a dictionary: every candidate is appended
DictAddAppend(d, id, x) ==
    [order |-> Append(d.order, id), score |-> [d.score EXCEPT ![id] = @ + x]]

\* if id in d: d[id] += x   else: d[id] = x
DictAdd(d, id, x) ==
    IF id \in Range(d.order)
    THEN [d EXCEPT !.score[id] = @ + x]
    ELSE DictSet(d, id, x)

\* sorted(d, key=score, reverse=True): stable, so keys of equal score keep
\* their insertion order
\* a sort that puts a key before the keys of equal score
InsertDescUnstable(s, x, score) ==
    LET n == Cardinality({i \in 1..Len(s) : score[s[i]] > score[x]})
    IN  SubSeq(s, 1, n) \o <<x>> \o SubSeq(s, n + 1, Len(s))

InsertDesc(s, x, score) ==
    LET n == Cardinality({i \in 1..Len(s) : score[s[i]] >= score[x]})
    IN  SubSeq(s, 1, n) \o <<x>> \o SubSeq(s, n + 1, Len(s))

RECURSIVE SortDesc(_, _)
SortDesc(s, score) ==
    IF s = <<>> THEN <<>>
    ELSE InsertDesc(SortDesc(SubSeq(s, 1, Len(s) - 1), score), s[Len(s)], score)

----------------------------------------------------------------------------
(* Weight calculation: HybridRecommender._calculate_user_weights *)

NoWeights == [content |-> 0, collaborative |-> 0, popularity |-> 0, den |-> 0]

\* recommendation/hybrid.py: the literal returned at lines 34-38, 58-62, 81-85
DefaultWeightsA == [content |-> 4, collaborative |-> 3, popularity |-> 3, den |-> 10]

\* recommendation/hybrid_recommender.py: self.default_weights
default_weights == [content |-> 3, collaborative |-> 4, popularity |-> 3, den |-> 10]

\* The store's answer for one user.  found = FALSE is es.get raising (or an
\* empty document): _get_user_data returns {}.  reactionsOk = FALSE is the
\* reaction search raising.
Profiles ==
    [found : BOOLEAN, favorites : Counts, playlists : Counts,
     reactions : Counts, reactionsOk : BOOLEAN]

\* the profiles the weight calculation is given when it is called on its own
StoredProfiles ==
    [found : BOOLEAN, favorites : 0..MaxActivity, playlists : 0..MaxActivity,
     reactions : 0..MaxActivity, reactionsOk : BOOLEAN]

NoProfile ==
    [found |-> FALSE, favorites |-> 0, playlists |-> 0, reactions |-> 0,
     reactionsOk |-> FALSE]

\* popularity taken as 1 - content alone
ActivityWeightsNoCollab(f, p, r) ==
    LET total_activity == f + p + r
        content_weight == 8 * total_activity + 10 * (f + p)
        collab_weight  == 6 * total_activity + 20 * r
    IN  [content |-> content_weight, collaborative |-> collab_weight,
         popularity |-> 20 * total_activity - content_weight,
         den |-> 20 * total_activity]

\* collaborative raised by half the reaction share only
ActivityWeightsHalfReactions(f, p, r) ==
    LET total_activity == f + p + r
        content_weight == 8 * total_activity + 10 * (f + p)
        collab_weight  == 6 * total_activity + 10 * r
    IN  [content |-> content_weight, collaborative |-> collab_weight,
         popularity |-> 20 * total_activity - content_weight - collab_weight,
         den |-> 20 * total_activity]

\* content = 0.4 + (f + p) / (2 T), collaborative = 0.3 + r / T,
\* popularity = 1.0 - content - collaborative, all over 20 T
ActivityWeights(f, p, r) ==
    LET total_activity == f + p + r
        content_weight == 8 * total_activity + 10 * (f + p)
        collab_weight  == 6 * total_activity + 20 * r
        popularity_weight == 20 * total_activity - content_weight - collab_weight
    IN  [content |-> content_weight, collaborative |-> collab_weight,
         popularity |-> popularity_weight, den |-> 20 * total_activity]

calculate_user_weights(defaults, u) ==
    IF ~u.found THEN defaults
    ELSE IF ~u.reactionsOk THEN defaults
    ELSE IF u.favorites + u.playlists + u.reactions = 0 THEN defaults
    ELSE ActivityWeights(u.favorites, u.playlists, u.reactions)

DefaultsOf(i) == IF i = "B" THEN default_weights ELSE DefaultWeightsA

\* the defaults a call returns: hybrid_recommender.py hands out its
\* default_weights field itself, hybrid.py a fresh literal
DefaultsNow == IF impl = "B" THEN selfDefaults ELSE DefaultWeightsA

\* a recommender that keeps the weights it computed last as its defaults
DefaultsAfterStoring(d, w) == w

\* the default_weights field after a call that returned w: no statement
\* of _calculate_user_weights assigns the field or writes into it
DefaultsAfter(d, w) == d

\* nothing asked of get_recommendation_explanation yet
NoExplanation == [asked |-> FALSE, song |-> 0, keys |-> {}, hybrid_score |-> 0]

\* no earlier request
NoPrevious == [list |-> <<>>, score |-> [s \in SongIds |-> 0]]

\* the fields after __init__, and a caller that has asked nothing
InitObjects ==
    /\ selfDefaults = IF impl = "B" THEN default_weights ELSE NoWeights
    /\ vectorizer = "unfitted"
    /\ explanation = NoExplanation
    /\ previous = NoPrevious

\* no mood asked for
IdleMood ==
    /\ tracks = <<>>
    /\ currentMood = ""
    /\ dfMood = <<>>

\* get_elasticsearch_client, lines 36-41: the client is built, no ping yet
IdlePing ==
    /\ attempt = 0
    /\ connected = FALSE
    /\ pingLog = <<>>
    /\ client = "pending"

\* no event, an empty comment text
NoEvent == [type |-> "", songId |-> FALSE, userId |-> FALSE, timestamp |-> FALSE,
            commentText |-> ""]

\* the track is not in the index
NoTrackDoc == [indexed |-> FALSE, viewCount |-> 0, totalReactionCount |-> 0,
               commentCount |-> 0, comments |-> <<>>]

\* the consumer before its first message
IdleEvents ==
    /\ event = NoEvent
    /\ handled = 0
    /\ trackDoc = NoTrackDoc
    /\ history = 0
    /\ recsWrites = 0
    /\ syncs = 0
    /\ processed = [listen |-> 0, like |-> 0, comment |-> 0, comments |-> <<>>,
                    faulty |-> FALSE]

\* the services around the recommenders at rest
IdleService ==
    /\ IdleMood
    /\ IdlePing
    /\ IdleEvents

\* no reaction index looked at
IdleCollab ==
    /\ matrix = [users |-> <<>>, rows |-> <<>>]
    /\ similarUsers = <<>>

\* the store as the hybrid models see it: through the scorers' answers only
IdleStore ==
    /\ userData = [found |-> FALSE, favorites |-> {}]
    /\ reactions = {}
    /\ allSongs = <<>>
    /\ alike = {}
    /\ IdleCollab
    /\ IdleService

----------------------------------------------------------------------------
(* The scorers of recommendation/: each returns stored song documents *)

NoScore == 0          \* a stored document without a 'score' key
EmptyListEntry == 0   \* the [] inside the tuple ([],) of popularity.py line 108
DefaultLimit == 10    \* limit: int = 10 of the three scorers

DocScores == [SongIds -> Scores \cup {NoScore}]

\* PopularityRecommender.get_recommendations(user_id, limit): the songs
\* sorted by popularity score, cut to limit; when the search raises, the
\* except branch runs "return []," which is the one-entry tuple ([],)
PopularityRecs(ok, ranking, k) ==
    IF ok THEN Take(ranking, k) ELSE <<EmptyListEntry>>

\* ContentBasedRecommender.get_recommendations and
\* CollaborativeRecommender.get_recommendations: the scored songs, best
\* first, cut to limit; [] when the user is unknown or a lookup raises
ScorerRecs(ok, ranking, k) ==
    IF ok THEN Take(ranking, k) ELSE <<>>

\* the limit each implementation passes to its scorers
ScorerLimit(i, lim) == IF i = "A" THEN 2 * lim ELSE DefaultLimit

----------------------------------------------------------------------------
(* Fusion: HybridRecommender.get_recommendations *)

\* for rec in recs: d[id] = c[id]            (first = TRUE)
\* for rec in recs: d[id] += c[id] or insert (first = FALSE)
RECURSIVE Merge(_, _, _, _)
Merge(d, recs, c, first) ==
    IF recs = <<>> THEN d
    ELSE LET id == Head(recs)
         IN  Merge(IF first THEN DictSet(d, id, c[id]) ELSE DictAdd(d, id, c[id]),
                   Tail(recs), c, first)

\* recommendation/hybrid.py lines 98-138: every song a scorer returned gets
\* that scorer's weight; song.get('id') on the [] of the tuple raises
FuseA(content, collab, pop, w, lim) ==
    LET d1 == Merge(EmptyDict, content, [s \in SongIds |-> w.content], TRUE)
        d2 == Merge(d1, collab, [s \in SongIds |-> w.collaborative], FALSE)
        d3 == IF EmptyListEntry \in Range(pop) THEN d2
              ELSE Merge(d2, pop, [s \in SongIds |-> w.popularity], FALSE)
    IN  [raised |-> EmptyListEntry \in Range(pop),
         dict   |-> d3,
         result |-> Take(SortDesc(d3.order, d3.score), lim)]

\* recommendation/hybrid_recommender.py lines 93-140: rec['score'] times
\* the scorer's weight; rec['id'] on the [] of the tuple raises, and so
\* does rec['score'] on a document without that key
FuseB(content, collab, pop, w, lim, ds) ==
    LET bad == \/ EmptyListEntry \in Range(pop)
               \/ \E id \in Range(pop) \cup Range(content) \cup Range(collab) :
                      ds[id] = NoScore
        d1 == Merge(EmptyDict, pop, [s \in SongIds |-> ds[s] * w.popularity], TRUE)
        d2 == Merge(d1, content, [s \in SongIds |-> ds[s] * w.content], FALSE)
        d3 == Merge(d2, collab, [s \in SongIds |-> ds[s] * w.collaborative], FALSE)
    IN  IF bad THEN [raised |-> TRUE, dict |-> EmptyDict, result |-> <<>>]
        ELSE [raised |-> FALSE,
              dict   |-> d3,
              result |-> Take(SortDesc(d3.order, d3.score), lim)]

Fuse(i, content, collab, pop, w, lim, ds) ==
    IF i = "A" THEN FuseA(content, collab, pop, w, lim)
    ELSE FuseB(content, collab, pop, w, lim, ds)

\* what the caller gets: the fused list, or on an exception the popularity
\* scorer's answer to a second call (ok2: that call's search succeeds)
Outcome(i, content, collab, pop, w, lim, ds, ranking, ok2) ==
    LET f == Fuse(i, content, collab, pop, w, lim, ds)
    IN  IF f.raised THEN PopularityRecs(ok2, ranking, lim) ELSE f.result

\* the order in which get_recommendations calls its steps
After(i, p) ==
    IF i = "A"
    THEN CASE p = "content" -> "collab"
           [] p = "collab" -> "popularity"
           [] p = "popularity" -> "weights"
           [] OTHER -> "fuse"
    ELSE CASE p = "popularity" -> "content"
           [] p = "content" -> "collab"
           [] p = "collab" -> "weights"
           [] OTHER -> "fuse"

InitClass ==
    /\ impl \in {"A", "B"}
    /\ pc = IF impl = "A" THEN "content" ELSE "popularity"
    /\ profile = NoProfile
    /\ weights = NoWeights
    /\ limit \in Limits
    /\ docScore \in DocScores
    /\ popRanking \in DistinctSeqs(SongIds)
    /\ popRecs = <<>>
    /\ contentRecs = <<>>
    /\ collabRecs = <<>>
    /\ combined = EmptyDict
    /\ result = <<>>
    /\ path = "normal"
    /\ permuted = <<>>
    /\ userId = FALSE
    /\ seedTracks = <<>>
    /\ popularity = [s \in SongIds |-> 0]
    /\ invoked = {}
    /\ contributed = {}
    /\ perSeed = NoSeeds
    /\ InitObjects
    /\ IdleStore

\* content_based.py get_recommendations.  similar: the user has favorites
\* or a history, so every scored song is compared with them and
\* _calculate_song_similarity (line 57) fits the shared vectorizer.
ContentScorer ==
    /\ pc = "content"
    /\ \E ok, similar \in BOOLEAN, ranking \in DistinctSeqs(SongIds) :
          /\ contentRecs' = ScorerRecs(ok, ranking, ScorerLimit(impl, limit))
          /\ vectorizer' = IF ok /\ similar /\ ranking # <<>>
                            THEN "fitted" ELSE vectorizer
    /\ pc' = After(impl, pc)
    /\ UNCHANGED <<impl, profile, weights, limit, docScore, popRanking, popRecs,
                   collabRecs, combined, result, path, permuted, funcVars,
                   selfDefaults, callerVars, storeVars>>

CollaborativeScorer ==
    /\ pc = "collab"
    /\ \E ok \in BOOLEAN, ranking \in DistinctSeqs(SongIds) :
          collabRecs' = ScorerRecs(ok, ranking, ScorerLimit(impl, limit))
    /\ pc' = After(impl, pc)
    /\ UNCHANGED <<impl, profile, weights, limit, docScore, popRanking, popRecs,
                   contentRecs, combined, result, path, permuted, funcVars, objectVars, callerVars, storeVars>>

PopularityScorer ==
    /\ pc = "popularity"
    /\ \E ok \in BOOLEAN :
          popRecs' = PopularityRecs(ok, popRanking, ScorerLimit(impl, limit))
    /\ pc' = After(impl, pc)
    /\ UNCHANGED <<impl, profile, weights, limit, docScore, popRanking,
                   contentRecs, collabRecs, combined, result, path, permuted, funcVars, objectVars, callerVars, storeVars>>

UserWeights ==
    /\ pc = "weights"
    /\ impl \in {"A", "B"}
    /\ \E u \in Profiles :
          LET w == calculate_user_weights(DefaultsNow, u)
          IN  /\ weights' = w
              /\ selfDefaults' = DefaultsAfter(selfDefaults, w)
    /\ pc' = After(impl, pc)
    /\ UNCHANGED <<impl, profile, limit, docScore, popRanking, popRecs,
                   contentRecs, collabRecs, combined, result, path, permuted,
                   funcVars, vectorizer, callerVars, storeVars>>

GetRecommendations ==
    /\ pc = "fuse"
    /\ LET f == Fuse(impl, contentRecs, collabRecs, popRecs, weights, limit, docScore)
       IN  \E ok2 \in BOOLEAN :
             /\ result' = Outcome(impl, contentRecs, collabRecs, popRecs, weights,
                                  limit, docScore, popRanking, ok2)
             /\ combined' = f.dict
             /\ path' = IF f.raised THEN "fallback" ELSE "normal"
             /\ \E c \in Orderings(contentRecs), k \in Orderings(collabRecs),
                   p \in Orderings(popRecs) :
                   permuted' = Outcome(impl, c, k, p, weights, limit, docScore,
                                       popRanking, ok2)
    /\ pc' = "done"
    /\ UNCHANGED <<impl, profile, weights, limit, docScore, popRanking, popRecs,
                   contentRecs, collabRecs, funcVars, objectVars, callerVars, storeVars>>

NextClass ==
    \/ ContentScorer
    \/ CollaborativeScorer
    \/ PopularityScorer
    \/ UserWeights
    \/ GetRecommendations

SpecClass == InitClass /\ [][NextClass]_vars

----------------------------------------------------------------------------
(* Moods: extract_current_mood and generate_tags_and_mood *)

MaxTracks == 2     \* extract_current_mood is handed at most MaxTracks tracks

NoFeature == -1    \* a track without the 'valence' or 'energy' key
NoMood == ""       \* a track without the 'mood' key; df['mood'] = ""
DefaultTenths == 5 \* track.get('valence', 0.5)
HighTenths == 6    \* 0.6
LowTenths == 4     \* 0.4

Moods == {"happy", "relaxed", "intense", "sad", "neutral"}

\* valence and energy in tenths; on these values the float sums and
\* averages of up to two tracks are exact at the thresholds
FeatureGrid == {0, 4, 6, 10}

TrackRecords ==
    [mood : {NoMood, "happy", "sad"},
     valence : FeatureGrid \cup {NoFeature},
     energy : FeatureGrid \cup {NoFeature}]

TrackLists == UNION {[1..n -> TrackRecords] : n \in 0..MaxTracks}

\* mood_counts[label] after the loop of lines 142-144
MoodCount(ts, label) == Cardinality({i \in 1..Len(ts) : ts[i].mood = label})

\* line 148: max(mood_counts.items(), key=count) is the first label, in
\* the order the tracks introduce them, that no label outnumbers
MostCommonMood(ts) ==
    LET first == CHOOSE i \in 1..Len(ts) :
                    /\ ts[i].mood # NoMood
                    /\ \A j \in 1..Len(ts) :
                          ts[j].mood # NoMood =>
                              MoodCount(ts, ts[j].mood) <= MoodCount(ts, ts[i].mood)
                    /\ \A j \in 1..(i - 1) :
                          ts[j].mood # NoMood =>
                              MoodCount(ts, ts[j].mood) < MoodCount(ts, ts[i].mood)
    IN  ts[first].mood

\* track.get(key, 0.5), in tenths
FeatureOf(x) == IF x = NoFeature THEN DefaultTenths ELSE x

RECURSIVE SumValence(_)
SumValence(ts) ==
    IF ts = <<>> THEN 0 ELSE FeatureOf(Head(ts).valence) + SumValence(Tail(ts))

RECURSIVE SumEnergy(_)
SumEnergy(ts) ==
    IF ts = <<>> THEN 0 ELSE FeatureOf(Head(ts).energy) + SumEnergy(Tail(ts))

\* the inference with the thresholds taken inclusively on both sides
InferMoodInclusive(valence_sum, energy_sum, n) ==
    IF valence_sum >= HighTenths * n /\ energy_sum >= HighTenths * n THEN "happy"
    ELSE IF valence_sum >= HighTenths * n /\ energy_sum <= LowTenths * n THEN "relaxed"
    ELSE IF valence_sum <= LowTenths * n /\ energy_sum >= HighTenths * n THEN "intense"
    ELSE IF valence_sum <= LowTenths * n /\ energy_sum <= LowTenths * n THEN "sad"
    ELSE "neutral"

\* lines 154-167: avg > 0.6 is sum > 0.6 * n
InferMood(valence_sum, energy_sum, n) ==
    IF valence_sum > HighTenths * n /\ energy_sum > HighTenths * n THEN "happy"
    ELSE IF valence_sum > HighTenths * n /\ energy_sum <= LowTenths * n THEN "relaxed"
    ELSE IF valence_sum <= LowTenths * n /\ energy_sum > HighTenths * n THEN "intense"
    ELSE IF valence_sum <= LowTenths * n /\ energy_sum <= LowTenths * n THEN "sad"
    ELSE "neutral"

\* extract_current_mood, mood_based.py lines 127-167 and
\* recommendation_service.py lines 494-526
extract_current_mood(ts) ==
    IF ts = <<>> THEN "neutral"
    ELSE IF \E i \in 1..Len(ts) : ts[i].mood # NoMood THEN MostCommonMood(ts)
    ELSE InferMood(SumValence(ts), SumEnergy(ts), Len(ts))

\* generate_tags_and_mood, data_transformer.py lines 186 and 206-220, for
\* one row of df; a missing value is NaN and satisfies no comparison
row_mood(v, e) ==
    IF v = NoFeature \/ e = NoFeature THEN "neutral"
    ELSE IF v >= HighTenths /\ e >= HighTenths THEN "happy"
    ELSE IF v >= HighTenths /\ e <= LowTenths THEN "relaxed"
    ELSE IF v <= LowTenths /\ e >= HighTenths THEN "intense"
    ELSE IF v <= LowTenths /\ e <= LowTenths THEN "sad"
    ELSE "neutral"

----------------------------------------------------------------------------
(* recommendation_algorithms/hybrid.py: hybrid_recommend *)

\* config.py RECOMMENDATION_WEIGHTS, in tenths
RECOMMENDATION_WEIGHTS ==
    [content |-> 4, collaborative |-> 3, mood |-> 2, popularity |-> 1]

PopularityScale == 100   \* rec['popularity'] / 100
ScorerN == 20            \* n=20 passed to every scorer

Popularities == 0..MaxScore

\* What a scorer of recommendation_algorithms/ returns: records with an id
\* and a score, distinct ids taken from S, best score first (the order the
\* store or the final sorted() gives); [] when a query raises
ScoredLists(S) ==
    {s \in UNION {[1..n -> [id : S, score : Scores]] : n \in 0..Cardinality(S)} :
        /\ \A i, j \in 1..Len(s) : i # j => s[i].id # s[j].id
        /\ \A i \in 1..Len(s) - 1 : s[i].score >= s[i + 1].score}

\* the stored tracks, highest popularity first, as the sorted search gives them
PopularityRankings(pop) ==
    {r \in DistinctSeqs(SongIds) :
        \A i \in 1..Len(r) - 1 : pop[r[i]] >= pop[r[i + 1]]}

\* get_popular_songs(n): [] when the search raises
get_popular_songs(ok, ranking, pop, n) ==
    IF ok THEN [i \in 1..Min(n, Len(ranking)) |->
                   [id |-> ranking[i], score |-> pop[ranking[i]]]]
    ELSE <<>>

\* for rec in recs: track_scores[rec['id']] += w * rec[score]
\* Fused scores are kept in thousandths: a weight in tenths times a score
\* in hundredths.
RECURSIVE AddRecs(_, _, _)
AddRecs(d, recs, unit) ==
    IF recs = <<>> THEN d
    ELSE AddRecs(DictAdd(d, Head(recs).id, unit * Head(recs).score), Tail(recs), unit)

\* for rec in more_pop_recs: if rec['id'] not in track_scores: track_scores[..] = ..
RECURSIVE AddMissing(_, _, _)
AddMissing(d, recs, unit) ==
    IF recs = <<>> THEN d
    ELSE AddMissing(IF Head(recs).id \in Range(d.order) THEN d
                    ELSE DictSet(d, Head(recs).id, unit * Head(recs).score),
                    Tail(recs), unit)

ScoreUnit(kind) == RECOMMENDATION_WEIGHTS[kind] * PopularityScale
PopularityUnit == RECOMMENDATION_WEIGHTS.popularity

\* lines 139-187: top up with popular songs, sort, cut to n, look the
\* tracks up; ok2: the second popularity search succeeds, ok3: the detail
\* search succeeds
FinishHybrid(d, n, ranking, pop, ok2, ok3) ==
    LET d2 == IF Len(d.order) < n
              THEN AddMissing(d, get_popular_songs(ok2, ranking, pop, 2 * n),
                              PopularityUnit)
              ELSE d
        top_tracks == Take(SortDesc(d2.order, d2.score), n)
    IN  [dict   |-> d2,
         result |-> IF top_tracks = <<>> THEN <<>>
                    ELSE IF ok3 THEN top_tracks ELSE <<>>,
         path   |-> IF top_tracks = <<>> THEN "empty"
                    ELSE IF ok3 THEN "normal" ELSE "lookup_failed"]

SeedLists == UNION {[1..n -> SongIds] : n \in 0..MaxSeeds}

AfterContent(u) == IF u THEN "collaborative" ELSE "popular"

InitFunc ==
    /\ impl = "F"
    /\ userId \in BOOLEAN
    /\ seedTracks \in SeedLists
    /\ pc = IF seedTracks # <<>> THEN "seeds"
            ELSE IF userId THEN "tags" ELSE "popular"
    /\ limit \in Limits
    /\ profile = NoProfile
    /\ weights = NoWeights
    /\ docScore = [s \in SongIds |-> NoScore]
    /\ popRanking = <<>>
    /\ popularity = [s \in SongIds |-> 0]
    /\ popRecs = <<>>
    /\ contentRecs = <<>>
    /\ collabRecs = <<>>
    /\ combined = EmptyDict
    /\ result = <<>>
    /\ path = "normal"
    /\ permuted = <<>>
    /\ invoked = {}
    /\ contributed = {}
    /\ perSeed = NoSeeds
    /\ InitObjects
    /\ IdleStore

\* each track's best similarity_score in one content_recs list so far
BestOf(best, recs) ==
    [s \in SongIds |->
        IF \E i \in 1..Len(recs) : recs[i].id = s /\ recs[i].score > best[s]
        THEN (CHOOSE r \in Range(recs) : r.id = s).score
        ELSE best[s]]

Noted(set, kind, recs) == IF recs # <<>> THEN set \cup {kind} ELSE set

\* lines 108-112: one pass of the loop over seed_tracks
ContentFromSeed ==
    /\ pc = "seeds"
    /\ \E content_recs \in ScoredLists(SongIds \ {Head(seedTracks)}) :
          /\ combined' = AddRecs(combined, Take(content_recs, ScorerN),
                                 ScoreUnit("content"))
          /\ contributed' = Noted(contributed, "content", content_recs)
          /\ perSeed' = [done |-> perSeed.done + 1,
                         best |-> BestOf(perSeed.best, content_recs)]
    /\ invoked' = invoked \cup {"content"}
    /\ seedTracks' = Tail(seedTracks)
    /\ pc' = IF Tail(seedTracks) = <<>> THEN AfterContent(userId) ELSE "seeds"
    /\ UNCHANGED <<impl, limit, popRanking, popRecs, result, path, userId,
                   popularity, classVars, objectVars, callerVars, storeVars>>

\* what get_user_tags does with the user's stored listening history:
\* "tags" when it finds tags, "none" when the history is empty, a lookup
\* fails or no track carries a tag, "raise" when a history record has no
\* 'track_id' key (line 49 is outside every try block)
TagLookups == {"tags", "none", "raise"}

\* lines 113-119: no seeds but a user: content from the user's tags, when
\* get_user_tags finds any
ContentFromTags ==
    /\ pc = "tags"
    /\ \E user_tags \in TagLookups :
          CASE user_tags = "tags" ->
                 /\ \E content_recs \in ScoredLists(SongIds) :
                       /\ combined' = AddRecs(combined, Take(content_recs, ScorerN),
                                              ScoreUnit("content"))
                       /\ contributed' = Noted(contributed, "content", content_recs)
                 /\ invoked' = invoked \cup {"content"}
                 /\ pc' = AfterContent(userId)
                 /\ path' = path
            [] user_tags = "none" ->
                 /\ UNCHANGED <<combined, contributed, invoked, path>>
                 /\ pc' = AfterContent(userId)
            [] OTHER ->
                 /\ UNCHANGED <<combined, contributed, invoked>>
                 /\ pc' = "done"
                 /\ path' = "raised"
    /\ UNCHANGED <<impl, limit, popRanking, popRecs, result, userId,
                   seedTracks, popularity, perSeed, classVars, objectVars, callerVars, storeVars>>

\* lines 122-125
CollaborativeRecommend ==
    /\ pc = "collaborative"
    /\ \E collab_recs \in ScoredLists(SongIds) :
          /\ combined' = AddRecs(combined, Take(collab_recs, ScorerN),
                                 ScoreUnit("collaborative"))
          /\ contributed' = Noted(contributed, "collaborative", collab_recs)
    /\ invoked' = invoked \cup {"collaborative"}
    /\ pc' = "mood"
    /\ UNCHANGED <<impl, limit, popRanking, popRecs, result, path, userId,
                   seedTracks, popularity, perSeed, classVars, objectVars, callerVars, storeVars>>

\* what get_user_recent_listens may hand to get_user_mood: nothing for a
\* user without listening history (or a failed lookup), else the tracks
RecentListens ==
    {<<>>, <<[mood |-> "happy", valence |-> NoFeature, energy |-> NoFeature]>>}

\* lines 128-132: get_user_mood (mood_based.py lines 169-187) answers
\* extract_current_mood of the recent listens, "neutral" for none; line
\* 129 tests the answer for truth, and no mood name is the empty string
MoodRecommend ==
    /\ pc = "mood"
    /\ \E recent_tracks \in RecentListens :
          /\ tracks' = recent_tracks
          /\ currentMood' = extract_current_mood(recent_tracks)
    /\ IF currentMood' # ""
       THEN /\ \E mood_recs \in ScoredLists(SongIds) :
                  /\ combined' = AddRecs(combined, Take(mood_recs, ScorerN),
                                         ScoreUnit("mood"))
                  /\ contributed' = Noted(contributed, "mood", mood_recs)
            /\ invoked' = invoked \cup {"mood"}
       ELSE UNCHANGED <<combined, contributed, invoked>>
    /\ pc' = "popular"
    /\ UNCHANGED <<impl, limit, popRanking, popRecs, result, path, userId,
                   seedTracks, popularity, perSeed, classVars, objectVars, callerVars,
                   userData, reactions, allSongs, alike, collabVars, dfMood, pingVars, eventVars>>

\* lines 135-137.  The stored tracks are drawn here: every track a scorer
\* returned is one of them.
PopularSongs ==
    /\ pc = "popular"
    /\ \E pop \in [SongIds -> Popularities] :
          \E ranking \in PopularityRankings(pop), ok \in BOOLEAN :
             /\ Range(combined.order) \subseteq Range(ranking)
             /\ \A s \in SongIds \ Range(ranking) : pop[s] = 0
             /\ popularity' = pop
             /\ popRanking' = ranking
             /\ LET pop_recs == get_popular_songs(ok, ranking, pop, ScorerN)
                IN  /\ popRecs' = [i \in 1..Len(pop_recs) |-> pop_recs[i].id]
                    /\ combined' = AddRecs(combined, pop_recs, PopularityUnit)
                    /\ contributed' = Noted(contributed, "popularity", pop_recs)
    /\ invoked' = invoked \cup {"popularity"}
    /\ pc' = "finish"
    /\ UNCHANGED <<impl, limit, result, path, userId, seedTracks, perSeed, classVars, objectVars, callerVars, storeVars>>

\* lines 139-187
HybridRecommend ==
    /\ pc = "finish"
    /\ \E ok2, ok3 \in BOOLEAN :
          LET f == FinishHybrid(combined, limit, popRanking, popularity, ok2, ok3)
          IN  /\ combined' = f.dict
              /\ result' = f.result
              /\ path' = f.path
    /\ pc' = "done"
    /\ UNCHANGED <<impl, limit, popRanking, popRecs, userId, seedTracks,
                   popularity, invoked, contributed, perSeed, classVars, objectVars, callerVars, storeVars>>

NextFunc ==
    \/ ContentFromSeed
    \/ ContentFromTags
    \/ CollaborativeRecommend
    \/ MoodRecommend
    \/ PopularSongs
    \/ HybridRecommend

SpecFunc == InitFunc /\ [][NextFunc]_vars

----------------------------------------------------------------------------
(* The weight calculation called on its own *)

InitWeights ==
    /\ pc = "weights"
    /\ impl \in {"A", "B"}
    /\ profile \in StoredProfiles
    /\ weights = NoWeights
    /\ limit = 0
    /\ docScore = [s \in SongIds |-> NoScore]
    /\ popRanking = <<>>
    /\ popRecs = <<>>
    /\ contentRecs = <<>>
    /\ collabRecs = <<>>
    /\ combined = EmptyDict
    /\ result = <<>>
    /\ path = "normal"
    /\ permuted = <<>>
    /\ userId = FALSE
    /\ seedTracks = <<>>
    /\ popularity = [s \in SongIds |-> 0]
    /\ invoked = {}
    /\ contributed = {}
    /\ perSeed = NoSeeds
    /\ InitObjects
    /\ IdleStore

CalcWeights ==
    /\ pc = "weights"
    /\ LET w == calculate_user_weights(DefaultsNow, profile)
       IN  /\ weights' = w
           /\ selfDefaults' = DefaultsAfter(selfDefaults, w)
    /\ pc' = "weighted"
    /\ UNCHANGED <<impl, profile, limit, docScore, popRanking, popRecs,
                   contentRecs, collabRecs, combined, result, path, permuted,
                   funcVars, vectorizer, callerVars, storeVars>>

\* the same user's weights asked for once more
CalcWeightsAgain ==
    /\ pc = "weighted"
    /\ LET w == calculate_user_weights(DefaultsNow, profile)
       IN  /\ weights' = w
           /\ selfDefaults' = DefaultsAfter(selfDefaults, w)
    /\ pc' = "weighted2"
    /\ UNCHANGED <<impl, profile, limit, docScore, popRanking, popRecs,
                   contentRecs, collabRecs, combined, result, path, permuted,
                   funcVars, vectorizer, callerVars, storeVars>>

NextWeights == CalcWeights \/ CalcWeightsAgain

SpecWeights == InitWeights /\ [][NextWeights]_vars

----------------------------------------------------------------------------
(* The callers of hybrid_recommender.py: explanations and repeated requests *)

\* get_recommendation_explanation, lines 147-171.  No scorer class defines
\* get_song_score, so line 153 raises AttributeError for every song and the
\* except branch returns {}: a dictionary without any key.
get_recommendation_explanation(song_id) ==
    [asked |-> TRUE, song |-> song_id, keys |-> {}, hybrid_score |-> 0]

\* kafka_consumer.py update_recommendations, lines 101-106
Explain ==
    /\ pc = "done"
    /\ impl = "B"
    /\ \E id \in Range(result) \cap SongIds :
          explanation' = get_recommendation_explanation(id)
    /\ pc' = "explained"
    /\ UNCHANGED <<impl, profile, weights, limit, docScore, popRanking, popRecs,
                   contentRecs, collabRecs, combined, result, path, permuted,
                   funcVars, objectVars, previous, storeVars>>

\* a content scorer that fits its vectorizer once and reuses it afterwards
RefitOnce(v, recs) ==
    IF v = "fitted" THEN [i \in 1..Len(recs) |-> recs[Len(recs) + 1 - i]] ELSE recs

\* the content scorer's answer when its vectorizer is in state v: line 57
\* fits the vectorizer anew for every pair of songs, so the answer for an
\* unchanged store does not depend on v
Refit(v, recs) == recs

\* the weights the second request computes: the profile is the one that
\* gave the first request its weights
SecondWeights ==
    {calculate_user_weights(DefaultsNow, u) :
        u \in {x \in Profiles : calculate_user_weights(DefaultsOf(impl), x) = weights}}

\* the request served once more by the same recommender object, every
\* store call answering as it did the first time
RepeatRequest ==
    /\ pc = "done"
    /\ impl \in {"A", "B"}
    /\ \E w \in SecondWeights, ok2 \in BOOLEAN :
          LET content == Refit(vectorizer, contentRecs)
              f == Fuse(impl, content, collabRecs, popRecs, w, limit, docScore)
          IN  /\ path = "fallback" => PopularityRecs(ok2, popRanking, limit) = result
              /\ result' = IF f.raised THEN PopularityRecs(ok2, popRanking, limit)
                            ELSE f.result
              /\ combined' = f.dict
              /\ path' = IF f.raised THEN "fallback" ELSE "normal"
              /\ weights' = w
              /\ selfDefaults' = DefaultsAfter(selfDefaults, w)
    /\ previous' = [list |-> result, score |-> combined.score]
    /\ pc' = "repeated"
    /\ UNCHANGED <<impl, profile, limit, docScore, popRanking, popRecs,
                   contentRecs, collabRecs, permuted, funcVars, vectorizer,
                   explanation, storeVars>>

NextCaller ==
    \/ NextClass
    \/ Explain
    \/ RepeatRequest

SpecCaller == InitClass /\ [][NextCaller]_vars

----------------------------------------------------------------------------
(* hybrid.py when a store call of a scorer does not come back *)

\* get_recommendations calls the three scorers one after another (lines
\* 91-93) and each scorer calls the store synchronously; no line sets a
\* time limit or runs a scorer apart from the request.  A store call that
\* does not answer therefore leaves the request inside the scorer.  (A
\* call the client gives up on raises instead, which is the failing search
\* of the scorer actions.)
ScorerDoesNotAnswer ==
    /\ pc \in {"content", "collab", "popularity"}
    /\ pc' = "waiting"
    /\ UNCHANGED <<impl, profile, weights, limit, docScore, popRanking, popRecs,
                   contentRecs, collabRecs, combined, result, path, permuted,
                   funcVars, objectVars, callerVars, storeVars>>

InitWait == InitClass /\ impl = "A"

NextWait == NextClass \/ ScorerDoesNotAnswer

\* the request's own thread keeps running its code; nothing obliges the
\* store to stay silent or to answer
SpecWait == InitWait /\ [][NextWait]_vars /\ WF_vars(NextClass)

----------------------------------------------------------------------------
(* The content and collaborative scorers on a stored profile *)

\* _calculate_song_similarity, content_based.py lines 35-62: the cosine of
\* the TF-IDF vectors of two texts, 1 for equal texts and 0 for texts
\* without a common word
Similarity(a, b) == IF a = b \/ {a, b} \in alike THEN 1 ELSE 0

\* lines 127-130 and 133-136: max(...) over the songs, 0.0 for no songs
MaxSimilarity(s, songs) ==
    IF \E t \in songs : Similarity(s, t) = 1 THEN 1 ELSE 0

\* line 139, in tenths: 0.7 * favorite_similarity + 0.3 * history_similarity
final_score(s, favorite_songs, listening_history) ==
    7 * MaxSimilarity(s, favorite_songs) + 3 * MaxSimilarity(s, listening_history)

\* the songs of the loop of line 118 that line 123 does not skip
RECURSIVE NotFavorite(_, _)
NotFavorite(songs, favorites) ==
    IF songs = <<>> THEN <<>>
    ELSE IF Head(songs) \in favorites THEN NotFavorite(Tail(songs), favorites)
    ELSE <<Head(songs)>> \o NotFavorite(Tail(songs), favorites)

\* ContentBasedRecommender.get_recommendations, lines 90-148
\* (ok: the search of the songs index succeeds)
content_get_recommendations(ud, reacted, songs, ok, k) ==
    IF ~ud.found \/ ~ok THEN <<>>
    ELSE LET favorite_songs == ud.favorites \cap Range(songs)
             listening_history == reacted \cap Range(songs)
             score == [s \in SongIds |->
                          final_score(s, favorite_songs, listening_history)]
         IN  Take(SortDesc(NotFavorite(songs, ud.favorites), score), k)

\* whether the request reaches line 57 for some pair of songs
FitsVectorizer(ud, reacted, songs, ok) ==
    /\ ud.found /\ ok
    /\ NotFavorite(songs, ud.favorites) # <<>>
    /\ (ud.favorites \cup reacted) \cap Range(songs) # {}

InitScorers ==
    /\ impl = "B"
    /\ pc = "content_based"
    /\ limit \in Limits
    /\ userData \in [found : BOOLEAN, favorites : SUBSET SongIds]
    /\ reactions \in SUBSET SongIds
    /\ allSongs \in DistinctSeqs(SongIds)
    /\ alike \in SUBSET {{a, b} : a, b \in SongIds}
    /\ \A p \in alike : Cardinality(p) = 2
    /\ profile = NoProfile
    /\ weights = NoWeights
    /\ docScore = [s \in SongIds |-> NoScore]
    /\ popRanking = <<>>
    /\ popRecs = <<>>
    /\ contentRecs = <<>>
    /\ collabRecs = <<>>
    /\ combined = EmptyDict
    /\ result = <<>>
    /\ path = "normal"
    /\ permuted = <<>>
    /\ userId = FALSE
    /\ seedTracks = <<>>
    /\ popularity = [s \in SongIds |-> 0]
    /\ invoked = {}
    /\ contributed = {}
    /\ perSeed = NoSeeds
    /\ InitObjects
    /\ IdleCollab
    /\ IdleService

ContentRecommend ==
    /\ pc = "content_based"
    /\ \E ok \in BOOLEAN :
          /\ contentRecs' = content_get_recommendations(userData, reactions,
                                                        allSongs, ok, limit)
          /\ vectorizer' = IF FitsVectorizer(userData, reactions, allSongs, ok)
                            THEN "fitted" ELSE vectorizer
    /\ pc' = "collaborative_filtering"
    /\ UNCHANGED <<impl, profile, weights, limit, docScore, popRanking, popRecs,
                   collabRecs, combined, result, path, permuted, funcVars,
                   selfDefaults, callerVars, storeVars>>

\* CollaborativeRecommender.get_recommendations, lines 132-151: nothing for
\* a user without reactions (line 137) or without similar users (line
\* 142); otherwise the songs of the similar users, the user's favorites
\* left out (line 112), cut to the limit
CollaborativeFiltering ==
    /\ pc = "collaborative_filtering"
    /\ IF reactions = {}
       THEN collabRecs' = <<>>
       ELSE \E similar_users \in BOOLEAN,
               recommendations \in DistinctSeqs(Range(allSongs) \ userData.favorites) :
               collabRecs' = IF similar_users THEN Take(recommendations, limit)
                             ELSE <<>>
    /\ pc' = "scored"
    /\ UNCHANGED <<impl, profile, weights, limit, docScore, popRanking, popRecs,
                   contentRecs, combined, result, path, permuted, funcVars,
                   objectVars, callerVars, storeVars>>

NextScorers == ContentRecommend \/ CollaborativeFiltering

SpecScorers == InitScorers /\ [][NextScorers]_vars

----------------------------------------------------------------------------
(* recommendation/collaborative.py on a stored reaction index *)

NMatrixSongs == 6   \* the songs named by stored reactions are 1..NMatrixSongs
NOthers == 11       \* the users other than the target are 1..NOthers
NFewOthers == 2     \* the other users, when the recommendations are built too

MatrixSongs == 1..NMatrixSongs
TargetUser == 0              \* user_id
ThresholdTenths == 3         \* similarity > 0.3
MaxSimilarUsers == 10        \* similar_users[:10]

\* The rows of the binary matrix the model draws.  Against a target row
\* {1,2,3} the cosines are 1, 1/sqrt(6) = 0.41, 1/sqrt(12) = 0.29 and 0.
TasteRows == {{1, 2, 3}, {3, 4}, {3, 4, 5, 6}}
DistantRows == {{4, 5}}
TargetRows == {{}, {1, 2, 3}}
FewTargetRows == {{}, {1, 2, 3}, {3}}

\* lines 62-70: the matrix of a reaction index in which the target has the
\* row target_row (none when empty) and the other users 1..n the rows of
\* rows; users lists the keys in the order the search hits name them
MatrixOf(n, target_row, rows) ==
    [users |-> IF target_row = {} THEN [i \in 1..n |-> i]
               ELSE <<TargetUser>> \o [i \in 1..n |-> i],
     rows  |-> [u \in 0..n |-> IF u = TargetUser THEN target_row ELSE rows[u]]]

Common(a, b) == Cardinality(a \cap b)

\* line 80: the cosine of two rows of a binary matrix is
\* |a & b| / sqrt(|a| * |b|); line 86: whether it is above 0.3
AboveThreshold(a, b) ==
    /\ Common(a, b) > 0
    /\ 100 * Common(a, b) * Common(a, b)
          > ThresholdTenths * ThresholdTenths * Cardinality(a) * Cardinality(b)

\* whether the cosine of t and a is at least the cosine of t and b
AtLeastAsSimilar(t, a, b) ==
    Common(t, a) * Common(t, a) * Cardinality(b)
        >= Common(t, b) * Common(t, b) * Cardinality(a)

\* lines 84-87: the loop over the row of the similarity matrix
RECURSIVE SelectSimilar(_, _, _)
SelectSimilar(users, user_id, rows) ==
    IF users = <<>> THEN <<>>
    ELSE LET rest == SelectSimilar(Tail(users), user_id, rows)
         IN  IF Head(users) # user_id
                /\ AboveThreshold(rows[user_id], rows[Head(users)])
             THEN <<Head(users)>> \o rest
             ELSE rest

\* line 90: similar_users.sort(key=similarity, reverse=True), a stable sort
InsertBySimilarity(s, x, t, rows) ==
    LET n == Cardinality({i \in 1..Len(s) : AtLeastAsSimilar(t, rows[s[i]], rows[x])})
    IN  SubSeq(s, 1, n) \o <<x>> \o SubSeq(s, n + 1, Len(s))

RECURSIVE SortBySimilarity(_, _, _)
SortBySimilarity(s, t, rows) ==
    IF s = <<>> THEN <<>>
    ELSE InsertBySimilarity(SortBySimilarity(SubSeq(s, 1, Len(s) - 1), t, rows),
                            s[Len(s)], t, rows)

\* a neighbor list that is not cut to ten users
get_similar_users_uncut(ok, m, user_id) ==
    IF ~ok \/ user_id \notin Range(m.users) THEN <<>>
    ELSE SortBySimilarity(SelectSimilar(m.users, user_id, m.rows),
                          m.rows[user_id], m.rows)

\* _get_similar_users, lines 50-95 (ok: the search of the reaction index
\* succeeds); users.index(user_id) raises for a user without a row and
\* line 95 answers []
get_similar_users(ok, m, user_id) ==
    IF ~ok \/ user_id \notin Range(m.users) THEN <<>>
    ELSE Take(SortBySimilarity(SelectSimilar(m.users, user_id, m.rows),
                               m.rows[user_id], m.rows),
              MaxSimilarUsers)

\* the members of a set of songs, lowest id first
RECURSIVE Ascending(_)
Ascending(S) ==
    IF S = {} THEN <<>>
    ELSE LET x == CHOOSE x \in S : \A y \in S : x <= y
         IN  <<x>> \o Ascending(S \ {x})

\* lines 110-113 for one similar user: the keys recommended_songs gains
RECURSIVE AppendNew(_, _, _)
AppendNew(order, songs, user_favorites) ==
    IF songs = <<>> THEN order
    ELSE AppendNew(IF Head(songs) \in user_favorites \/ Head(songs) \in Range(order)
                   THEN order ELSE Append(order, Head(songs)),
                   Tail(songs), user_favorites)

\* lines 105-113: the keys of recommended_songs in insertion order
RECURSIVE RecommendedSongs(_, _, _, _)
RecommendedSongs(order, similar_users, rows, user_favorites) ==
    IF similar_users = <<>> THEN order
    ELSE RecommendedSongs(AppendNew(order, Ascending(rows[Head(similar_users)]),
                                    user_favorites),
                          Tail(similar_users), rows, user_favorites)

\* _get_recommendations_from_similar_users, lines 97-130: a song counts 1.0
\* for every similar user who reacted to it, the user's favorites are left
\* out, the songs are listed by count (found: the song documents exist)
from_similar_users(similar_users, rows, user_favorites, user_id, found) ==
    IF ~found THEN <<>>
    ELSE LET score == [s \in MatrixSongs |->
                          Cardinality({i \in 1..Len(similar_users) :
                                          s \in rows[similar_users[i]]})]
         IN  SortDesc(RecommendedSongs(<<>>, similar_users, rows, user_favorites),
                      score)

\* the favorites a stored profile may list
FavoriteSets == SUBSET {1, 3, 4}

InitCollabWith(m) ==
    /\ impl = "B"
    /\ pc = "similar_users"
    /\ matrix = m
    /\ similarUsers = <<>>
    /\ userData = [found |-> FALSE, favorites |-> {}]
    /\ reactions = {}
    /\ allSongs = <<>>
    /\ alike = {}
    /\ profile = NoProfile
    /\ weights = NoWeights
    /\ docScore = [s \in SongIds |-> NoScore]
    /\ popRanking = <<>>
    /\ popRecs = <<>>
    /\ contentRecs = <<>>
    /\ collabRecs = <<>>
    /\ combined = EmptyDict
    /\ result = <<>>
    /\ path = "normal"
    /\ permuted = <<>>
    /\ userId = FALSE
    /\ seedTracks = <<>>
    /\ popularity = [s \in SongIds |-> 0]
    /\ invoked = {}
    /\ contributed = {}
    /\ perSeed = NoSeeds
    /\ InitObjects
    /\ IdleService

\* a reaction index with many users
InitNeighbors ==
    /\ limit = DefaultLimit
    /\ \E target_row \in TargetRows, rows \in [1..NOthers -> TasteRows] :
          InitCollabWith(MatrixOf(NOthers, target_row, rows))

\* a reaction index with few users
InitCollab ==
    /\ limit \in Limits
    /\ \E target_row \in FewTargetRows,
          rows \in [1..NFewOthers -> TasteRows \cup DistantRows] :
          InitCollabWith(MatrixOf(NFewOthers, target_row, rows))

\* a call of _get_similar_users for the target user
GetSimilarUsers ==
    /\ pc = "similar_users"
    /\ \E ok \in BOOLEAN :
          similarUsers' = get_similar_users(ok, matrix, TargetUser)
    /\ pc' = "neighbors"
    /\ UNCHANGED <<impl, limit, popRanking, popRecs, combined, result, path,
                   classVars, funcVars, objectVars, callerVars,
                   userData, reactions, allSongs, alike, matrix, serviceVars>>

\* get_recommendations, lines 137-147, once the similar users are known
RecommendFromSimilar ==
    /\ pc = "neighbors"
    /\ \E user_found \in BOOLEAN, user_favorites \in FavoriteSets, found \in BOOLEAN :
          /\ userData' = [found |-> user_found,
                          favorites |-> IF user_found THEN user_favorites ELSE {}]
          /\ collabRecs' =
                IF matrix.rows[TargetUser] = {} \/ similarUsers = <<>> THEN <<>>
                ELSE Take(from_similar_users(similarUsers, matrix.rows,
                                             userData'.favorites, TargetUser, found),
                          limit)
    /\ pc' = "scored"
    /\ UNCHANGED <<impl, profile, weights, limit, docScore, popRanking, popRecs,
                   contentRecs, combined, result, path, permuted, funcVars,
                   objectVars, callerVars, reactions, allSongs, alike, collabVars,
                   serviceVars>>

NextNeighbors == GetSimilarUsers

SpecNeighbors == InitNeighbors /\ [][NextNeighbors]_vars

NextCollab == GetSimilarUsers \/ RecommendFromSimilar

SpecCollab == InitCollab /\ [][NextCollab]_vars

----------------------------------------------------------------------------
(* Moods called on their own *)

InitMood ==
    /\ impl = "F"
    /\ pc = "mood_start"
    /\ tracks \in TrackLists
    /\ currentMood = ""
    /\ dfMood = <<>>
    /\ IdlePing
    /\ IdleEvents
    /\ limit = DefaultLimit
    /\ userData = [found |-> FALSE, favorites |-> {}]
    /\ reactions = {}
    /\ allSongs = <<>>
    /\ alike = {}
    /\ IdleCollab
    /\ profile = NoProfile
    /\ weights = NoWeights
    /\ docScore = [s \in SongIds |-> NoScore]
    /\ popRanking = <<>>
    /\ popRecs = <<>>
    /\ contentRecs = <<>>
    /\ collabRecs = <<>>
    /\ combined = EmptyDict
    /\ result = <<>>
    /\ path = "normal"
    /\ permuted = <<>>
    /\ userId = FALSE
    /\ seedTracks = <<>>
    /\ popularity = [s \in SongIds |-> 0]
    /\ invoked = {}
    /\ contributed = {}
    /\ perSeed = NoSeeds
    /\ InitObjects

\* a call of extract_current_mood(tracks)
ExtractCurrentMood ==
    /\ pc = "mood_start"
    /\ currentMood' = extract_current_mood(tracks)
    /\ pc' = "mood_extracted"
    /\ UNCHANGED <<impl, limit, popRanking, popRecs, combined, result, path,
                   classVars, funcVars, objectVars, callerVars,
                   userData, reactions, allSongs, alike, collabVars,
                   tracks, dfMood, pingVars, eventVars>>

\* a call of generate_tags_and_mood(df) on a frame with these tracks as
\* rows and all the audio feature columns
GenerateTagsAndMood ==
    /\ pc = "mood_extracted"
    /\ dfMood' = [i \in 1..Len(tracks) |-> row_mood(tracks[i].valence, tracks[i].energy)]
    /\ pc' = "mood_generated"
    /\ UNCHANGED <<impl, limit, popRanking, popRecs, combined, result, path,
                   classVars, funcVars, objectVars, callerVars,
                   userData, reactions, allSongs, alike, collabVars,
                   tracks, currentMood, pingVars, eventVars>>

NextMood == ExtractCurrentMood \/ GenerateTagsAndMood

SpecMood == InitMood /\ [][NextMood]_vars

----------------------------------------------------------------------------
(* utils/elasticsearch_client.py: get_elasticsearch_client *)

max_attempts == 5

\* what one es.ping() does: answer True, answer False, raise ConnectionError
PingOutcomes == {"up", "down", "error"}

\* a loop that allows one attempt more
LoopContinuesInclusive(a, c) == a <= max_attempts /\ ~c

\* line 43: while attempt < max_attempts and not connected
LoopContinues(a, c) == a < max_attempts /\ ~c

InitPing ==
    /\ impl = "F"
    /\ pc = "ping_loop"
    /\ IdlePing
    /\ IdleMood
    /\ IdleEvents
    /\ limit = DefaultLimit
    /\ userData = [found |-> FALSE, favorites |-> {}]
    /\ reactions = {}
    /\ allSongs = <<>>
    /\ alike = {}
    /\ IdleCollab
    /\ profile = NoProfile
    /\ weights = NoWeights
    /\ docScore = [s \in SongIds |-> NoScore]
    /\ popRanking = <<>>
    /\ popRecs = <<>>
    /\ contentRecs = <<>>
    /\ collabRecs = <<>>
    /\ combined = EmptyDict
    /\ result = <<>>
    /\ path = "normal"
    /\ permuted = <<>>
    /\ userId = FALSE
    /\ seedTracks = <<>>
    /\ popularity = [s \in SongIds |-> 0]
    /\ invoked = {}
    /\ contributed = {}
    /\ perSeed = NoSeeds
    /\ InitObjects

\* lines 43-55: one pass of the loop, the sleep included
Ping ==
    /\ pc = "ping_loop"
    /\ LoopContinues(attempt, connected)
    /\ \E outcome \in PingOutcomes :
          /\ pingLog' = Append(pingLog, outcome)
          /\ connected' = (outcome = "up")
          /\ attempt' = IF outcome = "up" THEN attempt ELSE attempt + 1
    /\ UNCHANGED <<pc, impl, limit, popRanking, popRecs, combined, result, path,
                   classVars, funcVars, objectVars, callerVars,
                   userData, reactions, allSongs, alike, collabVars,
                   moodVars, client, eventVars>>

\* lines 57-61, once the loop is left
ReturnClient ==
    /\ pc = "ping_loop"
    /\ ~LoopContinues(attempt, connected)
    /\ client' = IF connected THEN "es" ELSE "None"
    /\ pc' = "client_returned"
    /\ UNCHANGED <<impl, limit, popRanking, popRecs, combined, result, path,
                   classVars, funcVars, objectVars, callerVars,
                   userData, reactions, allSongs, alike, collabVars,
                   moodVars, attempt, connected, pingLog, eventVars>>

NextPing == Ping \/ ReturnClient

\* the function runs on: a ping answers or raises, a sleep ends
SpecPing == InitPing /\ [][NextPing]_vars /\ WF_vars(NextPing)

----------------------------------------------------------------------------
(* kafka_consumer.py: RecommendationConsumer.process_event, one track *)

MaxEvents == 3     \* the consumer receives at most MaxEvents messages

\* The messages the consumer may receive.  A field that is missing, None
\* or empty is falsy all the same: "" for the type, FALSE for the others.
Events ==
    {e \in [type : {"", "LISTEN", "LIKE", "COMMENT"},
            songId : BOOLEAN, userId : BOOLEAN, timestamp : BOOLEAN,
            commentText : {"", "nice"}] :
        e.type # "COMMENT" => e.commentText = ""}

\* a check that does not look at the timestamp
ValidEventWithoutTimestamp(e) == e.type # "" /\ e.songId /\ e.userId

\* line 41: all([event_type, song_id, user_id, timestamp])
ValidEvent(e) == e.type # "" /\ e.songId /\ e.userId /\ e.timestamp

\* spotify_sync.py lines 43-109, sync_track: when the Spotify lookups
\* answer, es.index writes the whole document, user_metrics at zero, over
\* whatever is stored under the track id; otherwise nothing is written
sync_track(doc, ok) ==
    IF ok THEN [indexed |-> TRUE, viewCount |-> 0, totalReactionCount |-> 0,
                commentCount |-> 0, comments |-> <<>>]
    ELSE doc

\* lines 49-68: the metrics of an event
MetricsOf(e) ==
    [viewCount     |-> IF e.type = "LISTEN" THEN 1 ELSE 0,
     reactionCount |-> IF e.type = "LIKE" THEN 1 ELSE 0,
     commentCount  |-> IF e.type = "COMMENT" THEN 1 ELSE 0,
     comment       |-> IF e.type = "COMMENT" THEN <<e.commentText>> ELSE <<>>]

\* spotify_sync.py lines 137-159, update_track_metrics: the script adds
\* the metrics to the stored document; es.update raises for a document
\* that is not there and line 158 logs it
update_track_metrics(doc, metrics, ok) ==
    IF ok /\ doc.indexed
    THEN [indexed            |-> TRUE,
          viewCount          |-> doc.viewCount + metrics.viewCount,
          totalReactionCount |-> doc.totalReactionCount + metrics.reactionCount,
          commentCount       |-> doc.commentCount + metrics.commentCount,
          comments           |-> doc.comments \o metrics.comment]
    ELSE doc

\* the valid events counted by type
Counted(p, e, faulty) ==
    [listen   |-> p.listen + (IF e.type = "LISTEN" THEN 1 ELSE 0),
     like     |-> p.like + (IF e.type = "LIKE" THEN 1 ELSE 0),
     comment  |-> p.comment + (IF e.type = "COMMENT" THEN 1 ELSE 0),
     comments |-> IF e.type = "COMMENT" THEN Append(p.comments, e.commentText)
                  ELSE p.comments,
     faulty   |-> p.faulty \/ faulty]

InitEvents ==
    /\ impl = "B"
    /\ pc = "consuming"
    /\ IdleEvents
    /\ IdleMood
    /\ IdlePing
    /\ limit = DefaultLimit
    /\ userData = [found |-> FALSE, favorites |-> {}]
    /\ reactions = {}
    /\ allSongs = <<>>
    /\ alike = {}
    /\ IdleCollab
    /\ profile = NoProfile
    /\ weights = NoWeights
    /\ docScore = [s \in SongIds |-> NoScore]
    /\ popRanking = <<>>
    /\ popRecs = <<>>
    /\ contentRecs = <<>>
    /\ collabRecs = <<>>
    /\ combined = EmptyDict
    /\ result = <<>>
    /\ path = "normal"
    /\ permuted = <<>>
    /\ userId = FALSE
    /\ seedTracks = <<>>
    /\ popularity = [s \in SongIds |-> 0]
    /\ invoked = {}
    /\ contributed = {}
    /\ perSeed = NoSeeds
    /\ InitObjects

\* process_event, lines 33-77, for the next message; start (lines 124-131)
\* awaits each call before it takes the next message.  sync_ok,
\* history_ok, metrics_ok, recs_ok: whether the store and Spotify calls of
\* sync_track, update_user_history, update_track_metrics and
\* update_recommendations succeed; each logs its own failure.
ProcessEvent ==
    /\ pc = "consuming"
    /\ handled < MaxEvents
    /\ \E e \in Events, sync_ok, history_ok, metrics_ok, recs_ok \in BOOLEAN :
          /\ event' = e
          /\ IF ~ValidEvent(e)
             THEN UNCHANGED <<trackDoc, history, recsWrites, syncs, processed>>
             ELSE /\ syncs' = syncs + 1
                  /\ trackDoc' = update_track_metrics(sync_track(trackDoc, sync_ok),
                                                      MetricsOf(e), metrics_ok)
                  /\ history' = IF e.type = "LISTEN" /\ history_ok
                                THEN history + 1 ELSE history
                  /\ recsWrites' = IF recs_ok THEN recsWrites + 1 ELSE recsWrites
                  /\ processed' = Counted(processed, e,
                                          ~sync_ok \/ ~metrics_ok \/ ~recs_ok
                                              \/ (e.type = "LISTEN" /\ ~history_ok))
    /\ handled' = handled + 1
    /\ UNCHANGED <<pc, impl, limit, popRanking, popRecs, combined, result, path,
                   classVars, funcVars, objectVars, callerVars,
                   userData, reactions, allSongs, alike, collabVars,
                   moodVars, pingVars>>

NextEvents == ProcessEvent

SpecEvents == InitEvents /\ [][NextEvents]_vars

----------------------------------------------------------------------------
(* All hybrid implementations together *)

Init == InitClass \/ InitFunc

Next == NextClass \/ NextFunc

Spec == Init /\ [][Next]_vars

----------------------------------------------------------------------------
(* Properties *)

\* C1: for every profile (missing profile and failed reaction lookup
\* included) the components of the weight vector sum to 1, that is, the
\* numerators sum to the common denominator.
C1_WeightsSumToOne ==
    pc = "weighted" =>
        /\ weights.den > 0
        /\ weights.content + weights.collaborative + weights.popularity = weights.den

C1_Witness ==
    /\ pc = "weighted"
    /\ profile.found /\ profile.reactionsOk
    /\ profile.favorites > 0 /\ profile.reactions > 0

\* C2: every component of the weight vector is >= 0; the popularity weight
\* is never negative.
C2_WeightsNonNegative ==
    pc = "weighted" =>
        /\ weights.content >= 0
        /\ weights.collaborative >= 0
        /\ weights.popularity >= 0

\* the scorers among content, collaborative, popularity that returned id
ReturnedBy(id) ==
    {k \in {"content", "collaborative", "popularity"} :
        id \in Range(CASE k = "content" -> contentRecs
                       [] k = "collaborative" -> collabRecs
                       [] OTHER -> popRecs)}

WeightedSum(id) ==
    (IF "content" \in ReturnedBy(id) THEN weights.content * docScore[id] ELSE 0)
    + (IF "collaborative" \in ReturnedBy(id)
       THEN weights.collaborative * docScore[id] ELSE 0)
    + (IF "popularity" \in ReturnedBy(id) THEN weights.popularity * docScore[id] ELSE 0)

\* C3: the fused score of every returned item is the sum, over the scorers
\* that returned it, of the scorer's weight times the item's raw score.
C3_FusedIsWeightedSum ==
    (pc = "done" /\ impl \in {"A", "B"} /\ path = "normal") =>
        \A id \in Range(result) :
            docScore[id] # NoScore => combined.score[id] = WeightedSum(id)

\* C4: the returned list is in descending fused score, and items of equal
\* fused score are in ascending id order.
C4_RankedByScoreThenId ==
    (pc = "done" /\ path = "normal") =>
        \A i, j \in 1..Len(result) :
            i < j =>
                \/ combined.score[result[i]] > combined.score[result[j]]
                \/ /\ combined.score[result[i]] = combined.score[result[j]]
                   /\ result[i] < result[j]

\* C5: no item id appears twice in the returned list.
C5_NoDuplicateIds ==
    pc = "done" =>
        \A i, j \in 1..Len(result) : i # j => result[i] # result[j]

C5_Witness ==
    /\ pc = "done" /\ impl = "B" /\ path = "normal"
    /\ \E id \in Range(result) : Cardinality(ReturnedBy(id)) >= 2
    /\ Len(result) >= 2

\* C6: the returned list has at most limit entries, on the normal path
\* and on the path that falls back to popularity.
C6_AtMostLimit ==
    pc = "done" => Len(result) <= limit

\* C7: the same candidates under the same weights give the same ranking,
\* whatever order each scorer lists its candidates in.
C7_OrderIndependent ==
    (pc = "done" /\ impl \in {"A", "B"}) => permuted = result

OthersEmpty ==
    IF impl = "F"
    THEN contributed \cap {"content", "collaborative", "mood"} = {}
    ELSE contentRecs = <<>> /\ collabRecs = <<>>

\* what the popularity scorer can answer for this request: the first limit
\* stored songs in popularity order, or its answer to a failed search
PopularityOutputs ==
    IF impl = "F"
    THEN {Take(popRanking, limit), <<>>}
    ELSE {PopularityRecs(ok, popRanking, limit) : ok \in BOOLEAN}

\* the popularity scorer's (first) answer holds no song within the limit
PopularityYieldsNothing == Range(Take(popRecs, limit)) \cap SongIds = {}

PopularityFailed == popRecs = <<EmptyListEntry>>

\* C9: when the popularity scorer's retrieval fails, the result is still
\* the fusion of what the other scorers returned.
C9_FailureKeepsOthers ==
    (pc = "done" /\ impl \in {"A", "B"} /\ PopularityFailed) =>
        LET f == Fuse(impl, contentRecs, collabRecs, <<>>, weights, limit, docScore)
        IN  ~f.raised => result = f.result

\* C10: a request with neither a user id nor a seed track invokes no
\* scorer and returns no recommendations.
InvalidRequest ==
    impl = "F" /\ ~userId /\ seedTracks = <<>> /\ "content" \notin invoked

C10_InvalidRequestRejected ==
    InvalidRequest => (invoked = {} /\ result = <<>>)

TotalActivity == profile.favorites + profile.playlists + profile.reactions

\* the weight calculation has returned for a profile whose lookups succeeded
WeightsComputed ==
    pc \in {"weighted", "weighted2"} /\ profile.found /\ profile.reactionsOk

\* C13: a user whose total activity is 0 gets exactly content 0.4,
\* collaborative 0.3, popularity 0.3.
C13_ZeroActivityDefaults ==
    (WeightsComputed /\ TotalActivity = 0) =>
        /\ 10 * weights.content = 4 * weights.den
        /\ 10 * weights.collaborative = 3 * weights.den
        /\ 10 * weights.popularity = 3 * weights.den

C15_ScenarioClamped ==
    (WeightsComputed /\ profile.favorites = 10 /\ profile.playlists = 5
        /\ profile.reactions = 0) =>
        /\ weights.popularity = 0
        /\ weights.content + weights.collaborative = weights.den

C11_AlwaysReturnsAList ==
    pc = "done" =>
        /\ path # "raised"
        /\ Range(result) \subseteq SongIds

\* C12: the explanation of a returned item reports the fused score the
\* recommendation run gave that item, with the weights and the
\* per-strategy scores.
C12_ExplanationMatchesFusion ==
    (pc = "explained" /\ path = "normal") =>
        /\ {"hybrid_score", "weights", "popularity_score", "content_score",
            "collaborative_score"} \subseteq explanation.keys
        /\ explanation.hybrid_score = combined.score[explanation.song]

C18_ObjectsUnchanged ==
    /\ vectorizer = "unfitted"
    /\ selfDefaults = (IF impl = "B" THEN default_weights ELSE NoWeights)

\* the result is the fusion of the lists of the scorers that answered
FusionOfAnswered ==
    LET f == Fuse(impl, contentRecs, collabRecs,
                  IF PopularityFailed THEN <<>> ELSE popRecs, weights, limit, docScore)
    IN  ~f.raised => result = f.result

ColdStart == userData.found /\ userData.favorites = {} /\ reactions = {}

\* C20: for a cold-start user the content scorer and the collaborative
\* scorer each return an empty list.
C20_ColdStartEmpty ==
    (pc = "scored" /\ ColdStart) => (contentRecs = <<>> /\ collabRecs = <<>>)

\* C21: no song the target user already has - a favorite, or a song one of
\* the user's own reactions names - is returned by the collaborative
\* scorer.
C21_NoOwnedItems ==
    pc = "scored" =>
        Range(collabRecs) \cap (userData.favorites \cup matrix.rows[TargetUser]) = {}

\* C29: the neighbor list never contains the target user, has at most 10
\* users, holds only users whose cosine similarity to the target is above
\* 0.3, is in non-increasing similarity order, and is empty when the
\* target has no row in the matrix.
C29_NeighborList ==
    pc = "neighbors" =>
        LET t == matrix.rows[TargetUser]
            row(i) == matrix.rows[similarUsers[i]]
            shared(i) == Cardinality(t \cap row(i))
        IN  /\ TargetUser \notin Range(similarUsers)
            /\ Len(similarUsers) <= 10
            /\ \A i \in 1..Len(similarUsers) :
                  /\ shared(i) > 0
                  /\ 100 * shared(i) * shared(i)
                        > 9 * Cardinality(t) * Cardinality(row(i))
            /\ \A i \in 1..Len(similarUsers) - 1 :
                  shared(i) * shared(i) * Cardinality(row(i + 1))
                      >= shared(i + 1) * shared(i + 1) * Cardinality(row(i))
            /\ (TargetUser \notin Range(matrix.users) => similarUsers = <<>>)

\* more than ten users are similar enough, some user is not, and the list
\* had to be reordered
C29_Witness ==
    /\ pc = "neighbors"
    /\ Len(similarUsers) = 10
    /\ \A u \in 1..NOthers : AboveThreshold(matrix.rows[TargetUser], matrix.rows[u])
    /\ similarUsers[1] > similarUsers[2]
    /\ matrix.rows[similarUsers[1]] # matrix.rows[similarUsers[10]]

\* C22: once the seed tracks are processed, the content contribution to a
\* track's fused score is the content weight times the track's best
\* similarity to a single seed.
C22_ContentIsBestSeed ==
    (impl = "F" /\ perSeed.done >= 1 /\ seedTracks = <<>> /\ invoked = {"content"}) =>
        \A s \in SongIds :
            combined.score[s] = ScoreUnit("content") * perSeed.best[s]

C28_SameMoodAsTransformer ==
    (pc = "mood_generated" /\ Len(tracks) = 1 /\ tracks[1].mood = NoMood
        /\ tracks[1].valence # NoFeature /\ tracks[1].energy # NoFeature) =>
        currentMood = dfMood[1]

\* C24: for a user without listening history the mood strategy is not
\* invoked and adds nothing to any fused score.
C24_NoHistoryNoMood ==
    (impl = "F" /\ userId /\ pc \in {"popular", "finish", "done"}
        /\ path # "raised" /\ tracks = <<>>
        /\ (perSeed.done = 0 => "content" \notin invoked)) =>
        "mood" \notin invoked

\* C27: when the popularity searches and the detail lookup succeed,
\* hybrid_recommend(n) returns exactly min(n, number of stored tracks)
\* recommendations, whatever the user and the seeds.
C27_ExactCount ==
    (impl = "F" /\ pc = "done" /\ path # "lookup_failed"
        /\ Len(popRecs) = Len(popRanking)) =>
        /\ path # "raised"
        /\ Len(result) = Min(limit, Len(popRanking))

\* C26: get_elasticsearch_client terminates; it returns the client right
\* after the first successful ping, and None after 5 failed pings, never
\* pinging a 6th time.
C26_ClientOrNoneWithinFive ==
    /\ <>(pc = "client_returned")
    /\ [](LET failed == {i \in 1..Len(pingLog) : pingLog[i] # "up"}
              succeeded == {i \in 1..Len(pingLog) : pingLog[i] = "up"}
          IN  /\ Cardinality(failed) <= 5
              /\ Len(pingLog) <= 5
              /\ succeeded \subseteq {Len(pingLog)}
              /\ pc = "client_returned" =>
                    /\ client \in {"es", "None"}
                    /\ client = "es" <=> succeeded # {}
                    /\ client = "None" <=> Cardinality(failed) = 5)

\* five pings failed, some by answering False and some by raising
C26_Witness ==
    /\ pc = "client_returned"
    /\ client = "None"
    /\ Len(pingLog) = 5
    /\ {pingLog[i] : i \in 1..5} = {"down", "error"}

\* C25: after any sequence of valid LISTEN, LIKE and COMMENT events for
\* the track, every store call having succeeded, the stored viewCount,
\* totalReactionCount and commentCount are the numbers of LISTEN, LIKE and
\* COMMENT events processed, and the stored comments are the comments
\* received.
C25_CountsMatchEvents ==
    (pc = "consuming" /\ ~processed.faulty) =>
        /\ trackDoc.viewCount = processed.listen
        /\ trackDoc.totalReactionCount = processed.like
        /\ trackDoc.commentCount = processed.comment
        /\ trackDoc.comments = processed.comments

\* C30: a process_event call on an event without a type, songId, userId
\* or timestamp syncs no track, writes no history, updates no metric and
\* stores no recommendation.
C30_InvalidEventChangesNothing ==
    [][(handled' = handled + 1
          /\ (event'.type = "" \/ ~event'.songId \/ ~event'.userId
                \/ ~event'.timestamp))
       => UNCHANGED <<trackDoc, history, recsWrites, syncs>>]_vars

\* an event without a timestamp was rejected after a LISTEN was counted
C30_Witness ==
    /\ pc = "consuming"
    /\ handled >= 2
    /\ event.type = "LIKE" /\ event.songId /\ event.userId /\ ~event.timestamp
    /\ trackDoc.viewCount = 1 /\ trackDoc.totalReactionCount = 0
    /\ history = 1 /\ recsWrites = 1 /\ syncs = 1

====
